---- MODULE Spec2Model ----
(***************************************************************************)
(* Deployment resolution scripts of sap-ai-core-llm-proxy:                 *)
(*   list_deployments.py, find_opus_deployment.py, test_deployment.py and  *)
(*   list_configurations.py, and the integration-test driver               *)
(*   test_claude_code_integration.py.                                      *)
(* Every script is a sequential program: load the service key, exchange it *)
(* for a token, list resources, then work through the listing.  One run of *)
(* one script is one behaviour; the HTTP responses and the files read are  *)
(* the inputs, drawn where the code reads them.                            *)
(***************************************************************************)
EXTENDS Integers, Sequences, FiniteSets, TLC

\* Bounds of the model (not program constants).
MaxSubaccounts == 2
MaxDeployments == 2
MaxConfigurations == 2

VARIABLES
    script,             \* which script this run executes
    pc,                 \* position in the script's main()
    nsubs,              \* number of entries of config['subAccounts']
    sub,                \* index of the subaccount being processed
    service_key,        \* the service key loaded for the current subaccount
    resource_group,     \* the resource group of the current subaccount
    token,              \* the token returned by get_token
    calls,              \* core operations invoked for the current subaccount
    sent,               \* HTTP requests issued for the current subaccount
    response,           \* the last HTTP response received
    error,              \* the last error message printed
    deployments,        \* result of list_deployments
    i,                  \* loop index into the listing being swept
    details,            \* result of the last get_deployment_details
    model_name,         \* list_deployments.py main: model_name of the last step
    claude_deployments, \* list_deployments.py main
    other_deployments,  \* list_deployments.py main
    configurations,     \* result of list_configurations
    opus_configs,       \* find_opus_deployment.py main
    opus_deployments,   \* find_opus_deployment.py main
    running_deployments,\* find_opus_deployment.py main
    suggested,          \* find_opus_deployment.py main: URLs printed for config.json
    result,             \* test_deployment.py main: result of the last probe
    reports,            \* test_deployment.py main: the status line printed per probe
    printed,            \* test_deployment.py main: header and text printed last
    claude_configs,     \* list_configurations.py main
    other_configs,      \* list_configurations.py main
    args,               \* test_claude_code_integration.py: the command line flags
    environ,            \* os.environ.get("ANTHROPIC_AUTH_TOKEN")
    config_file,        \* secret_authentication_tokens of config.json, if the file exists
    marker,             \* content of the file .last_sync_hash, if it exists
    last_sync,          \* run_integration_test: last_sync
    current_hash,       \* run_integration_test: current_hash
    api_key,            \* the token get_auth_token returned for the last test
    http_response,      \* test_http_endpoint: the proxy's answer
    results,            \* run_integration_test: results
    http_result,        \* run_integration_test: the tuple test_http_endpoint returned
    all_passed,         \* run_integration_test: the value returned
    exit_code           \* the status the process exits with

sweep_vars == <<deployments, i, details, model_name, claude_deployments, other_deployments>>
find_vars == <<configurations, opus_configs, opus_deployments, running_deployments, suggested>>
probe_vars == <<result, reports, printed>>
configs_vars == <<claude_configs, other_configs>>
integration_vars ==
    <<args, environ, config_file, marker, last_sync, current_hash, api_key,
      http_response, http_result, results, all_passed, exit_code>>
run_vars ==
    <<script, pc, nsubs, sub, service_key, resource_group, token, calls, sent, response,
      error>>

vars == <<run_vars, sweep_vars, find_vars, probe_vars, configs_vars, integration_vars>>

----------------------------------------------------------------------------
\* Optional values: a dict key that may be missing, a value that may be None.
None == <<>>
Some(v) == <<v>>

\* Python truthiness of an optional string: present and not empty.
Truthy(o) == o # None /\ o[1] # ""

\* Names are sequences of characters, so that lower() and `in` are computed.
NAME_OPUS_V1 == <<"c", "l", "a", "u", "d", "e", "-", "4", ".", "5", "-", "o", "p", "u", "s", "-", "v", "1">>
NAME_OPUS_UPPER == <<"C", "l", "a", "u", "d", "e", "4", "5", "_", "O", "P", "U", "S">>
NAME_GPT == <<"g", "p", "t", "-", "4", "o">>
NAME_SONNET == <<"A", "n", "t", "h", "r", "o", "p", "i", "c", "-", "-", "S", "o", "n", "n", "e", "t">>
UNKNOWN == <<"u", "n", "k", "n", "o", "w", "n">>
EMPTY == <<>>
TOK_CLAUDE_45_OPUS == <<"c", "l", "a", "u", "d", "e", "-", "4", ".", "5", "-", "o", "p", "u", "s">>
TOK_CLAUDE45_OPUS == <<"c", "l", "a", "u", "d", "e", "4", "5", "_", "o", "p", "u", "s">>
TOK_CLAUDE == <<"c", "l", "a", "u", "d", "e">>
TOK_ANTHROPIC == <<"a", "n", "t", "h", "r", "o", "p", "i", "c">>
TOK_OPUS == <<"o", "p", "u", "s">>

UpperChars == <<"A", "B", "C", "D", "E", "F", "G", "H", "I", "J", "K", "L", "M", "N", "O", "P", "Q", "R", "S", "T", "U", "V", "W", "X", "Y", "Z">>
LowerChars == <<"a", "b", "c", "d", "e", "f", "g", "h", "i", "j", "k", "l", "m", "n", "o", "p", "q", "r", "s", "t", "u", "v", "w", "x", "y", "z">>

\* str.lower(), character by character.
lower_char(c) ==
    IF \E k \in 1..Len(UpperChars) : UpperChars[k] = c
    THEN LowerChars[CHOOSE k \in 1..Len(UpperChars) : UpperChars[k] = c]
    ELSE c
lower(s) == [k \in 1..Len(s) |-> lower_char(s[k])]

\* Python's `needle in hay` on strings.
contains(needle, hay) ==
    \E k \in 0..(Len(hay) - Len(needle)) :
        SubSeq(hay, k + 1, k + Len(needle)) = needle

----------------------------------------------------------------------------
\* Service keys: the four fields of the credential descriptor, each optional.
FullKey ==
    [clientid |-> Some("sb-client"), clientsecret |-> Some("secret"),
     url |-> Some("https://auth.example.com"),
     AI_API_URL |-> Some("https://api.example.com")]
ServiceKeys ==
    { FullKey,
      [FullKey EXCEPT !.clientid = None],
      [FullKey EXCEPT !.clientsecret = Some("")],
      [FullKey EXCEPT !.url = None],
      [FullKey EXCEPT !.AI_API_URL = None],
      [FullKey EXCEPT !.AI_API_URL = Some("https://api.example.com/")] }

\* config.json: the entry of the s-th subaccount.  The second one has no
\* resource_group key.
SubaccountConfig(s) ==
    [resource_group |-> IF s = 2 THEN None ELSE Some("rg" \o ToString(s))]
\* subaccount_config.get('resource_group', 'default')
config_resource_group(cfg) ==
    IF cfg.resource_group = None THEN "default" ELSE cfg.resource_group[1]

\* HTTP exchanges.  kind "http" carries a status; the other kinds are
\* transport failures (requests.Timeout, requests.ConnectionError).
Failures ==
    { [kind |-> "http", status |-> 401, header |-> None, body |-> None,
       text |-> "Unauthorized"],
      [kind |-> "http", status |-> 500, header |-> None, body |-> None,
       text |-> "Internal Server Error"],
      [kind |-> "timeout", status |-> 0, header |-> None, body |-> None, text |-> ""],
      [kind |-> "connection_error", status |-> 0, header |-> None, body |-> None,
       text |-> ""] }
Ok(header, body) ==
    [kind |-> "http", status |-> 200, header |-> header, body |-> Some(body),
     text |-> ""]

\* Response.raise_for_status(): raises HTTPError for a 4xx or 5xx status.
raise_for_status(resp) == resp.status >= 400 /\ resp.status < 600
\* The exchange raised a requests.RequestException.
RequestException(resp) == resp.kind # "http" \/ raise_for_status(resp)

\* What a core operation did: the responses to the requests it sent (one per
\* request), how it ended ("return", "exit" for sys.exit(1), "raise" for an
\* uncaught exception), the value returned and the message printed.
Outcome(reqs, out, value, err) ==
    [reqs |-> reqs, out |-> out, value |-> value, error |-> err]

\* The token endpoint's answers to subaccount s: a token bound to s, a body
\* without access_token, or a failure.
TokenResponses(s) ==
    { Ok(None, [access_token |-> Some(s)]), Ok(None, [access_token |-> None]) }
        \cup Failures

deployment_id(k) == "d" \o ToString(k)
Statuses == {"RUNNING", "STOPPED"}
\* c0 is the id of a configuration that is in no listing (a deleted one).
ConfigurationIds == {"c0", "c1", "c2"}
\* Deployment listings: the k-th resource has id d<k> (ids are unique).
RECURSIVE Listings(_)
Listings(n) ==
    IF n = 0 THEN { <<>> }
    ELSE LET shorter == Listings(n - 1)
         IN shorter \cup
            { Append(l, [id |-> deployment_id(n), configurationId |-> c, status |-> st]) :
                l \in { m \in shorter : Len(m) = n - 1 },
                c \in ConfigurationIds, st \in Statuses }
\* list_deployments.py reads only id and status: one configuration id is
\* enough, and a third status is listed.
SweepStatuses == {"RUNNING", "STOPPED", "PENDING"}
RECURSIVE SweepListingsOf(_)
SweepListingsOf(n) ==
    IF n = 0 THEN { <<>> }
    ELSE LET shorter == SweepListingsOf(n - 1)
         IN shorter \cup
            { Append(l, [id |-> deployment_id(n), configurationId |-> "c1", status |-> st]) :
                l \in { m \in shorter : Len(m) = n - 1 }, st \in SweepStatuses }
SweepListings == SweepListingsOf(MaxDeployments)
\* Answers of a listing endpoint: 200 with a resources array or without
\* the field, 201 with a resources array of one element, or a failure.
ListingResponses(ls) ==
    { Ok(None, [resources |-> Some(l)]) : l \in ls }
        \cup { Ok(None, [resources |-> None]) }
        \cup { [Ok(None, [resources |-> Some(l)]) EXCEPT !.status = 201] :
                  l \in { m \in ls : Len(m) = 1 } }
        \cup Failures

\* Bodies of GET /v2/lm/deployments/{id}: the nested path
\* details.resources.backend_details.model may be missing, the model may
\* lack a name, and configurationName is optional.
EmptyDetails ==
    [has_backend_model |-> FALSE, name |-> None, configurationName |-> None,
     configurationId |-> None]
DetailBodies ==
    { [has_backend_model |-> hm, name |-> n, configurationName |-> cn,
       configurationId |-> ci] :
        hm \in BOOLEAN, n \in {None, Some(EMPTY), Some(NAME_OPUS_V1)},
        cn \in {None, Some(NAME_GPT)}, ci \in {None, Some("c1")} }
DetailResponses ==
    { Ok(h, b) : h \in {None, Some(NAME_SONNET)},
                 b \in { d \in DetailBodies :
                           /\ (~d.has_backend_model => d.name = None)
                           /\ (d.configurationId = None <=> d = EmptyDetails) } }
        \cup Failures

----------------------------------------------------------------------------
\* list_deployments.py

\* Variant of get_token that keeps the token of an earlier call instead of
\* exchanging the credentials again.
list_deployments_get_token_cached(key, resp) ==
    IF ~(Truthy(key.clientid) /\ Truthy(key.clientsecret) /\ Truthy(key.url))
    THEN Outcome(<<>>, "exit", None, "Missing required fields in service key")
    ELSE IF token # None
    THEN Outcome(<<>>, "return", token, "")
    ELSE IF RequestException(resp)
    THEN Outcome(<<resp>>, "exit", None, "Error getting token")
    ELSE IF resp.body[1].access_token = None
    THEN Outcome(<<resp>>, "raise", None, "KeyError: 'access_token'")
    ELSE Outcome(<<resp>>, "return", resp.body[1].access_token, "")

\* get_token: refuses a key lacking clientid, clientsecret or url; any
\* RequestException ends the process.
list_deployments_get_token(key, resp) ==
    IF ~(Truthy(key.clientid) /\ Truthy(key.clientsecret) /\ Truthy(key.url))
    THEN Outcome(<<>>, "exit", None, "Missing required fields in service key")
    ELSE IF RequestException(resp)
    THEN Outcome(<<resp>>, "exit", None, "Error getting token")
    ELSE IF resp.body[1].access_token = None
    THEN Outcome(<<resp>>, "raise", None, "KeyError: 'access_token'")
    ELSE Outcome(<<resp>>, "return", resp.body[1].access_token, "")

\* list_deployments: refuses a key without AI_API_URL; a failed exchange
\* ends the process; otherwise the resources array, [] when absent.
list_deployments_list_deployments(key, resp) ==
    IF ~Truthy(key.AI_API_URL)
    THEN Outcome(<<>>, "exit", <<>>, "AI_API_URL not found in service key")
    ELSE IF RequestException(resp)
    THEN Outcome(<<resp>>, "exit", <<>>, "Error listing deployments")
    ELSE IF resp.body[1].resources = None
    THEN Outcome(<<resp>>, "return", <<>>, "")
    ELSE Outcome(<<resp>>, "return", resp.body[1].resources[1], "")

\* Variant of get_deployment_details that repeats a failed request once.
get_deployment_details_retry(resp) ==
    IF RequestException(resp)
    THEN Outcome(<<resp, resp>>, "return", EmptyDetails, "")
    ELSE Outcome(<<resp>>, "return", resp.body[1], "")

\* get_deployment_details: the JSON body, or {} after any RequestException.
get_deployment_details(resp) ==
    IF RequestException(resp)
    THEN Outcome(<<resp>>, "return", EmptyDetails, "")
    ELSE Outcome(<<resp>>, "return", resp.body[1], "")

\* main, lines 147-163: the model name of a deployment from its details.
\* raised: backend['model']['name'] on a model without a name (KeyError).
extract_model_name(d) ==
    LET nested == IF d.has_backend_model /\ d.name # None THEN d.name[1] ELSE UNKNOWN
        fallback == IF nested = UNKNOWN
                         /\ d.configurationName # None
                         /\ d.configurationName[1] # EMPTY
                    THEN d.configurationName[1]
                    ELSE nested
    IN [raised |-> d.has_backend_model /\ d.name = None, name |-> fallback]

\* An Optional[str] inside an f-string.
format_opt(o) == IF o = None THEN "None" ELSE o[1]

\* Variant of the derived URL built on the control-plane path.
deployment_url_control_plane(key, id) ==
    format_opt(key.AI_API_URL) \o "/v2/lm/deployments/" \o id

\* f"{base_url}/v2/inference/deployments/{deployment_id}"
deployment_url(key, id) ==
    format_opt(key.AI_API_URL) \o "/v2/inference/deployments/" \o id

\* test_deployment.py, lines 37-38: the URL a probe is posted to.
test_deployment_url(key, id) ==
    format_opt(key.AI_API_URL) \o "/v2/inference/deployments/" \o id

\* The URL of the request an operation sends.
request_url(op, id) ==
    CASE op = "get_token" ->
            format_opt(service_key.url) \o "/oauth/token?grant_type=client_credentials"
      [] op = "list_deployments" ->
            format_opt(service_key.AI_API_URL) \o "/v2/lm/deployments"
      [] op = "list_configurations" ->
            format_opt(service_key.AI_API_URL) \o "/v2/lm/configurations"
      [] op = "get_deployment_details" ->
            format_opt(service_key.AI_API_URL) \o "/v2/lm/deployments/" \o id[1]
      [] op = "test_deployment" -> test_deployment_url(service_key, id[1])

\* main, line 177: the Claude/Anthropic test on the model name.
is_claude(name) ==
    \/ contains(TOK_CLAUDE, lower(name))
    \/ contains(TOK_ANTHROPIC, lower(name))
    \/ contains(TOK_OPUS, lower(name))

\* Variant of the status test that takes a PENDING deployment as well.
is_running_or_pending(d) == d.status \in {"RUNNING", "PENDING"}

\* main, lines 138-141: the sweep goes on with a deployment only when its
\* status is RUNNING.
is_running(d) == d.status = "RUNNING"

\* The requests an operation sent, as entries of the request log: the token
\* request has Basic credentials; every other request carries the caller's
\* token as Bearer credential and its resource group.
Requests(op, o, id) ==
    [k \in 1..Len(o.reqs) |->
        [op |-> op, call |-> Len(calls) + 1, sub |-> sub,
         token |-> IF op = "get_token" THEN None ELSE token,
         resource_group |-> IF op = "get_token" THEN None ELSE Some(resource_group),
         url |-> request_url(op, id),
         id |-> id]]
\* The record of one invocation: pre says its preconditions held (every
\* credential field it uses was present).
Call(op, pre) == [op |-> op, pre |-> pre]
token_pre(key) == Truthy(key.clientid) /\ Truthy(key.clientsecret) /\ Truthy(key.url)
api_pre(key) == Truthy(key.AI_API_URL)

LastResponse(o) == IF o.reqs = <<>> THEN response ELSE Some(o.reqs[Len(o.reqs)])

\* How a failed operation ends the run.
Ended(o) == IF o.out = "exit" THEN "exit" ELSE "crashed"

\* main, lines 96-108: config.json is read; no subaccount is an error.
LD_main ==
    /\ UNCHANGED integration_vars
    /\ UNCHANGED <<find_vars, probe_vars, configs_vars>>
    /\ script = "list_deployments" /\ pc = "start"
    /\ IF nsubs = 0
       THEN pc' = "exit" /\ error' = "No subaccounts configured" /\ sub' = sub
       ELSE pc' = "load_service_key" /\ error' = error /\ sub' = 1
    /\ UNCHANGED <<script, resource_group, nsubs, service_key, token, calls, sent, response>>
    /\ UNCHANGED sweep_vars

\* main, lines 110-119: the next subaccount's resource group is read and
\* its key file loaded.
LD_load_service_key ==
    /\ UNCHANGED integration_vars
    /\ UNCHANGED <<find_vars, probe_vars, configs_vars>>
    /\ script = "list_deployments" /\ pc = "load_service_key"
    /\ \E key \in ServiceKeys : service_key' = key
    /\ pc' = "get_token"
    /\ resource_group' = config_resource_group(SubaccountConfig(sub))
    /\ calls' = <<>> /\ sent' = <<>> /\ response' = None
    /\ UNCHANGED <<script, nsubs, sub, token, error>>
    /\ UNCHANGED sweep_vars

\* main, line 120.
LD_get_token ==
    /\ UNCHANGED integration_vars
    /\ UNCHANGED <<find_vars, probe_vars, configs_vars>>
    /\ script = "list_deployments" /\ pc = "get_token"
    /\ \E resp \in TokenResponses(sub) :
        LET o == list_deployments_get_token(service_key, resp)
        IN /\ calls' = Append(calls, Call("get_token", token_pre(service_key)))
           /\ sent' = sent \o Requests("get_token", o, None)
           /\ response' = LastResponse(o)
           /\ token' = o.value
           /\ error' = o.error
           /\ pc' = IF o.out = "return" THEN "list_deployments" ELSE Ended(o)
    /\ UNCHANGED <<script, resource_group, nsubs, sub, service_key>>
    /\ UNCHANGED sweep_vars

\* main, lines 123-130.
LD_list_deployments ==
    /\ UNCHANGED integration_vars
    /\ UNCHANGED <<find_vars, probe_vars, configs_vars>>
    /\ script = "list_deployments" /\ pc = "list_deployments"
    /\ \E resp \in ListingResponses(SweepListings) :
        LET o == list_deployments_list_deployments(service_key, resp)
        IN /\ calls' = Append(calls, Call("list_deployments", api_pre(service_key)))
           /\ sent' = sent \o Requests("list_deployments", o, None)
           /\ response' = LastResponse(o)
           /\ deployments' = o.value
           /\ error' = o.error
           /\ pc' = IF o.out = "return" THEN "sweep" ELSE Ended(o)
    /\ i' = 1 /\ claude_deployments' = <<>> /\ other_deployments' = <<>>
    /\ UNCHANGED <<script, resource_group, nsubs, sub, service_key, token, details, model_name>>

\* main, lines 133-142: a deployment that is not RUNNING is skipped.
LD_skip ==
    /\ UNCHANGED integration_vars
    /\ UNCHANGED <<find_vars, probe_vars, configs_vars>>
    /\ script = "list_deployments" /\ pc = "sweep"
    /\ i <= Len(deployments)
    /\ ~is_running(deployments[i])
    /\ i' = i + 1
    /\ UNCHANGED <<script, pc, resource_group, nsubs, sub, service_key, token, calls, sent,
                   response, error, deployments, details, model_name,
                   claude_deployments, other_deployments>>

\* main, lines 144-180: details are fetched, the model name extracted and
\* the deployment classified.
LD_sweep ==
    /\ UNCHANGED integration_vars
    /\ UNCHANGED <<find_vars, probe_vars, configs_vars>>
    /\ script = "list_deployments" /\ pc = "sweep"
    /\ i <= Len(deployments)
    /\ is_running(deployments[i])
    /\ \E resp \in DetailResponses :
        LET o == get_deployment_details(resp)
            m == extract_model_name(o.value)
            info == [id |-> deployments[i].id,
                     url |-> deployment_url(service_key, deployments[i].id),
                     status |-> deployments[i].status,
                     model |-> m.name,
                     config |-> o.value.configurationId]
        IN /\ calls' = Append(calls, Call("get_deployment_details", api_pre(service_key)))
           /\ sent' = sent \o Requests("get_deployment_details", o, Some(deployments[i].id))
           /\ response' = LastResponse(o)
           /\ details' = Some(o.value)
           /\ IF m.raised
              THEN /\ pc' = "crashed" /\ error' = "KeyError: 'name'"
                   /\ UNCHANGED <<model_name, claude_deployments, other_deployments, i>>
              ELSE /\ pc' = pc /\ error' = error
                   /\ model_name' = Some(m.name)
                   /\ claude_deployments' =
                        IF is_claude(m.name) THEN Append(claude_deployments, info)
                        ELSE claude_deployments
                   /\ other_deployments' =
                        IF ~is_claude(m.name) /\ m.name # UNKNOWN
                        THEN Append(other_deployments, info)
                        ELSE other_deployments
                   /\ i' = i + 1
    /\ UNCHANGED <<script, resource_group, nsubs, sub, service_key, token, deployments>>

\* main, lines 182-205 and the loop header at line 110: the reports are
\* printed and the next subaccount, if any, is taken up.
LD_next_subaccount ==
    /\ UNCHANGED integration_vars
    /\ UNCHANGED <<find_vars, probe_vars, configs_vars>>
    /\ script = "list_deployments" /\ pc = "sweep"
    /\ i > Len(deployments)
    /\ IF sub < nsubs
       THEN /\ pc' = "load_service_key" /\ sub' = sub + 1
            \* The locals of the finished iteration are dead: each is
            \* assigned again (lines 123-161) before it is read.
            /\ deployments' = <<>> /\ i' = 1 /\ details' = None
            /\ model_name' = None
            /\ claude_deployments' = <<>> /\ other_deployments' = <<>>
       ELSE /\ pc' = "done" /\ sub' = sub
            /\ UNCHANGED sweep_vars
    /\ UNCHANGED <<script, resource_group, nsubs, service_key, token, calls, sent, response, error>>

----------------------------------------------------------------------------
\* find_opus_deployment.py, test_deployment.py, list_configurations.py

\* Variant of get_token without raise_for_status(): a failed exchange
\* returns no token instead of raising.
get_token_no_raise(key, resp) ==
    IF ~Truthy(key.url)
    THEN Outcome(<<>>, "raise", None, "MissingSchema")
    ELSE IF RequestException(resp)
    THEN Outcome(<<resp>>, "return", None, "")
    ELSE IF resp.body[1].access_token = None
    THEN Outcome(<<resp>>, "raise", None, "KeyError: 'access_token'")
    ELSE Outcome(<<resp>>, "return", resp.body[1].access_token, "")

\* get_token of the three scripts (the same text in each): the key is not
\* checked.  A missing url makes requests.post raise MissingSchema before
\* anything is sent; every exception is uncaught.
get_token(key, resp) ==
    IF ~Truthy(key.url)
    THEN Outcome(<<>>, "raise", None, "MissingSchema")
    ELSE IF RequestException(resp)
    THEN Outcome(<<resp>>, "raise", None, "RequestException")
    ELSE IF resp.body[1].access_token = None
    THEN Outcome(<<resp>>, "raise", None, "KeyError: 'access_token'")
    ELSE Outcome(<<resp>>, "return", resp.body[1].access_token, "")

\* Configuration listings: the k-th resource has id c<k>, or repeats c1;
\* names are mixed case.
ConfigurationNames == {NAME_OPUS_V1, NAME_OPUS_UPPER, NAME_GPT}
RECURSIVE ConfigListings(_)
ConfigListings(n) ==
    IF n = 0 THEN { <<>> }
    ELSE LET shorter == ConfigListings(n - 1)
         IN shorter \cup
            { Append(l, [id |-> c, name |-> Some(nm)]) :
                l \in { m \in shorter : Len(m) = n - 1 },
                c \in {"c" \o ToString(n), "c1"}, nm \in ConfigurationNames }

\* find_opus_deployment.py list_configurations: nothing is caught.
find_opus_list_configurations(key, resp) ==
    IF ~Truthy(key.AI_API_URL)
    THEN Outcome(<<>>, "raise", <<>>, "MissingSchema")
    ELSE IF RequestException(resp)
    THEN Outcome(<<resp>>, "raise", <<>>, "RequestException")
    ELSE IF resp.body[1].resources = None
    THEN Outcome(<<resp>>, "return", <<>>, "")
    ELSE Outcome(<<resp>>, "return", resp.body[1].resources[1], "")

\* find_opus_deployment.py list_deployments: nothing is caught.
find_opus_list_deployments(key, resp) ==
    IF ~Truthy(key.AI_API_URL)
    THEN Outcome(<<>>, "raise", <<>>, "MissingSchema")
    ELSE IF RequestException(resp)
    THEN Outcome(<<resp>>, "raise", <<>>, "RequestException")
    ELSE IF resp.body[1].resources = None
    THEN Outcome(<<resp>>, "return", <<>>, "")
    ELSE Outcome(<<resp>>, "return", resp.body[1].resources[1], "")

\* config.get('name', '')
config_name(c) == IF c.name = None THEN EMPTY ELSE c.name[1]

\* Variant of the name predicate that compares without lower().
is_opus_config_case_sensitive(c) ==
    \/ contains(TOK_CLAUDE_45_OPUS, config_name(c))
    \/ contains(TOK_CLAUDE45_OPUS, config_name(c))

\* main, lines 89-90: the name predicate of this call site.
is_opus_config(c) ==
    \/ contains(TOK_CLAUDE_45_OPUS, lower(config_name(c)))
    \/ contains(TOK_CLAUDE45_OPUS, lower(config_name(c)))

\* main, lines 87-94.
filter_opus_configs(cfgs) == SelectSeq(cfgs, is_opus_config)

\* Variant of the inner loop that reports a deployment of an unknown
\* configuration as a match without a configuration.
matches_of_unmatched_reported(d, ocs, key) ==
    LET hits == SelectSeq(ocs, LAMBDA c : c.id = d.configurationId)
    IN IF hits = <<>> /\ d.configurationId = "c0"
       THEN <<[deployment_id |-> d.id,
               deployment_url |-> deployment_url(key, d.id),
               status |-> d.status,
               config_name |-> None,
               config_id |-> d.configurationId]>>
       ELSE [k \in 1..Len(hits) |->
               [deployment_id |-> d.id,
                deployment_url |-> deployment_url(key, d.id),
                status |-> d.status,
                config_name |-> hits[k].name,
                config_id |-> hits[k].id]]

\* main, lines 112-123: the matches one deployment contributes.
matches_of(d, ocs, key) ==
    LET hits == SelectSeq(ocs, LAMBDA c : c.id = d.configurationId)
    IN [k \in 1..Len(hits) |->
          [deployment_id |-> d.id,
           deployment_url |-> deployment_url(key, d.id),
           status |-> d.status,
           config_name |-> hits[k].name,
           config_id |-> hits[k].id]]

\* Variant of the outer loop that emits the matches of later deployments
\* first.
RECURSIVE match_deployments_reversed(_, _, _)
match_deployments_reversed(deps, ocs, key) ==
    IF deps = <<>> THEN <<>>
    ELSE match_deployments_reversed(Tail(deps), ocs, key)
            \o matches_of(Head(deps), ocs, key)

\* main, lines 105-123: deployments in listing order.
RECURSIVE match_deployments(_, _, _)
match_deployments(deps, ocs, key) ==
    IF deps = <<>> THEN <<>>
    ELSE matches_of(Head(deps), ocs, key) \o match_deployments(Tail(deps), ocs, key)

\* Variant of the RUNNING filter that keeps every match.
select_any_status(ods) == ods

\* main, line 131.
select_running(ods) == SelectSeq(ods, LAMBDA d : d.status = "RUNNING")
\* main, lines 147-153: running_deployments[:1].
first_one(rds) == SubSeq(rds, 1, IF Len(rds) < 1 THEN Len(rds) ELSE 1)

\* main of each of the three scripts: the resource group of subaccount
\* 'main' is read and its key loaded.
run_load_service_key ==
    /\ UNCHANGED integration_vars
    /\ script \in {"find_opus_deployment", "test_deployment", "list_configurations"}
    /\ pc = "start"
    /\ \E key \in ServiceKeys : service_key' = key
    /\ sub' = 1
    /\ resource_group' = SubaccountConfig(1).resource_group[1]
    /\ pc' = "get_token"
    /\ UNCHANGED <<script, nsubs, token, calls, sent, response, error>>
    /\ UNCHANGED <<sweep_vars, find_vars, probe_vars, configs_vars>>

\* main of each of the three scripts: token = get_token(service_key).
run_get_token ==
    /\ UNCHANGED integration_vars
    /\ script \in {"find_opus_deployment", "test_deployment", "list_configurations"}
    /\ pc = "get_token"
    /\ \E resp \in TokenResponses(sub) :
        LET o == get_token(service_key, resp)
        IN /\ calls' = Append(calls, Call("get_token", token_pre(service_key)))
           /\ sent' = sent \o Requests("get_token", o, None)
           /\ response' = LastResponse(o)
           /\ token' = o.value
           /\ error' = o.error
           /\ pc' = IF o.out # "return" THEN Ended(o)
                    ELSE IF script = "test_deployment" THEN "known"
                    ELSE "list_configurations"
    /\ UNCHANGED <<script, resource_group, nsubs, sub, service_key>>
    /\ UNCHANGED <<sweep_vars, find_vars, probe_vars, configs_vars>>

\* find_opus_deployment.py main, lines 84-96.
FO_list_configurations ==
    /\ UNCHANGED integration_vars
    /\ script = "find_opus_deployment" /\ pc = "list_configurations"
    /\ \E resp \in ListingResponses(ConfigListings(MaxConfigurations)) :
        LET o == find_opus_list_configurations(service_key, resp)
        IN /\ calls' = Append(calls, Call("list_configurations", api_pre(service_key)))
           /\ sent' = sent \o Requests("list_configurations", o, None)
           /\ response' = LastResponse(o)
           /\ error' = o.error
           /\ configurations' = o.value
           /\ opus_configs' = IF o.out = "return" THEN filter_opus_configs(o.value)
                              ELSE opus_configs
           /\ pc' = IF o.out = "return" THEN "list_deployments" ELSE Ended(o)
    /\ UNCHANGED <<script, resource_group, nsubs, sub, service_key, token>>
    /\ UNCHANGED <<opus_deployments, running_deployments, suggested>>
    /\ UNCHANGED <<sweep_vars, probe_vars, configs_vars>>

\* find_opus_deployment.py main, lines 98-101.
FO_list_deployments ==
    /\ UNCHANGED integration_vars
    /\ script = "find_opus_deployment" /\ pc = "list_deployments"
    /\ \E resp \in ListingResponses(Listings(MaxDeployments)) :
        LET o == find_opus_list_deployments(service_key, resp)
        IN /\ calls' = Append(calls, Call("list_deployments", api_pre(service_key)))
           /\ sent' = sent \o Requests("list_deployments", o, None)
           /\ response' = LastResponse(o)
           /\ error' = o.error
           /\ deployments' = o.value
           /\ pc' = IF o.out = "return" THEN "match" ELSE Ended(o)
    /\ UNCHANGED <<script, resource_group, nsubs, sub, service_key, token>>
    /\ UNCHANGED <<i, details, model_name, claude_deployments, other_deployments>>
    /\ UNCHANGED <<find_vars, probe_vars, configs_vars>>

\* find_opus_deployment.py main, lines 103-123.
FO_match ==
    /\ UNCHANGED integration_vars
    /\ script = "find_opus_deployment" /\ pc = "match"
    /\ opus_deployments' = match_deployments(deployments, opus_configs, service_key)
    /\ pc' = "report"
    /\ UNCHANGED <<script, resource_group, nsubs, sub, service_key, token, calls, sent, response, error>>
    /\ UNCHANGED <<configurations, opus_configs, running_deployments, suggested>>
    /\ UNCHANGED <<sweep_vars, probe_vars, configs_vars>>

\* find_opus_deployment.py main, lines 125-184.
FO_report ==
    /\ UNCHANGED integration_vars
    /\ script = "find_opus_deployment" /\ pc = "report"
    /\ running_deployments' = select_running(opus_deployments)
    /\ suggested' = first_one(select_running(opus_deployments))
    /\ pc' = "done"
    /\ UNCHANGED <<script, resource_group, nsubs, sub, service_key, token, calls, sent, response, error>>
    /\ UNCHANGED <<configurations, opus_configs, opus_deployments>>
    /\ UNCHANGED <<sweep_vars, probe_vars, configs_vars>>

----------------------------------------------------------------------------
\* test_deployment.py

\* main, lines 102-115: the deployment ids probed, in dict order.
known_deployments == <<"d0c56b8d3578bd1b", "dfe7874938d2c0f6">>
potential_opus_deployments ==
    <<"d635d2e4e4023c3e", "d3d5b1c3ec655230", "dda818db4a6ebeaa",
      "df4b4ef707c98fec", "d14636a118a96e18">>

\* Bodies of a probe response: not JSON at all, a JSON array, or a JSON
\* object whose content (a list of blocks) is optional.
ProbeBodies ==
    { [json |-> "invalid", content |-> None],
      [json |-> "array", content |-> None],
      [json |-> "object", content |-> None],
      [json |-> "object", content |-> Some(<<[type |-> "text", text |-> Some("test")]>>)] }
ProbeResponses ==
    { Ok(h, b) : h \in {None, Some(NAME_SONNET)}, b \in ProbeBodies }
        \cup { [kind |-> "http", status |-> 201, header |-> Some(NAME_SONNET),
                body |-> Some([json |-> "object", content |-> None]), text |-> ""],
               [kind |-> "http", status |-> 500, header |-> None, body |-> None,
                text |-> "Request timeout"] }
        \cup Failures

\* The dict test_deployment returns; a key it does not set is None.
ProbeResult(success, status_code, model_header, resp, err) ==
    [success |-> success, status_code |-> status_code,
     model_header |-> model_header, response |-> resp, error |-> err]

\* response.headers.get('x-model-id', 'unknown')
header_or_unknown(h) == IF h = None THEN UNKNOWN ELSE h[1]

\* Variant of test_deployment whose non-200 branch drops the status code.
test_deployment_no_status(key, resp) ==
    IF ~Truthy(key.AI_API_URL)
    THEN Outcome(<<>>, "return",
                 ProbeResult(FALSE, None, None, None, Some("MissingSchema")), "")
    ELSE IF resp.kind = "timeout"
    THEN Outcome(<<resp>>, "return",
                 ProbeResult(FALSE, None, None, None, Some("Request timeout")), "")
    ELSE IF resp.kind # "http"
    THEN Outcome(<<resp>>, "return",
                 ProbeResult(FALSE, None, None, None, Some("ConnectionError")), "")
    ELSE IF resp.status # 200
    THEN Outcome(<<resp>>, "return",
                 ProbeResult(FALSE, None, None, None, Some(resp.text)), "")
    ELSE IF resp.body[1].json = "invalid"
    THEN Outcome(<<resp>>, "return",
                 ProbeResult(FALSE, None, None, None, Some("JSONDecodeError")), "")
    ELSE Outcome(<<resp>>, "return",
                 ProbeResult(TRUE, Some(resp.status), Some(header_or_unknown(resp.header)),
                             resp.body, None), "")

\* test_deployment, lines 35-81: one POST with timeout=10; every exception
\* is caught.  A missing AI_API_URL makes requests.post raise MissingSchema
\* inside the try block, before anything is sent.
test_deployment(key, resp) ==
    IF ~Truthy(key.AI_API_URL)
    THEN Outcome(<<>>, "return",
                 ProbeResult(FALSE, None, None, None, Some("MissingSchema")), "")
    ELSE IF resp.kind = "timeout"
    THEN Outcome(<<resp>>, "return",
                 ProbeResult(FALSE, None, None, None, Some("Request timeout")), "")
    ELSE IF resp.kind # "http"
    THEN Outcome(<<resp>>, "return",
                 ProbeResult(FALSE, None, None, None, Some("ConnectionError")), "")
    ELSE IF resp.status # 200
    THEN Outcome(<<resp>>, "return",
                 ProbeResult(FALSE, Some(resp.status), None, None, Some(resp.text)), "")
    ELSE IF resp.body[1].json = "invalid"
    THEN Outcome(<<resp>>, "return",
                 ProbeResult(FALSE, None, None, None, Some("JSONDecodeError")), "")
    ELSE Outcome(<<resp>>, "return",
                 ProbeResult(TRUE, Some(resp.status), Some(header_or_unknown(resp.header)),
                             resp.body, None), "")

\* main, lines 126-130: result['response'].get('content', []) needs a dict;
\* the text printed is that of the first content block.
report_raises(r) == r.success /\ r.response[1].json # "object"
first_text(r) ==
    LET content == IF r.response[1].content = None THEN <<>> ELSE r.response[1].content[1]
    IN IF content = <<>> THEN None
       ELSE IF content[1].text = None THEN Some("") ELSE content[1].text

status_line(r) == IF r.success THEN "SUCCESS" ELSE "FAILED"

\* main, lines 122-132: what is printed for a known deployment.
report_known(r) ==
    IF r.success
    THEN [status |-> "SUCCESS", model_header |-> r.model_header,
          text |-> first_text(r), url |-> None, error |-> None]
    ELSE [status |-> "FAILED", model_header |-> None, text |-> None, url |-> None,
          error |-> r.error]
\* main, lines 139-146: what is printed for a potential deployment.
report_potential(r, key, id) ==
    IF r.success
    THEN [status |-> "SUCCESS", model_header |-> r.model_header, text |-> None,
          url |-> Some(deployment_url(key, id)), error |-> None]
    ELSE [status |-> "FAILED", model_header |-> None, text |-> None, url |-> None,
          error |-> r.error]

\* main, lines 120-132: the next known deployment is probed and reported.
TD_known ==
    /\ UNCHANGED integration_vars
    /\ script = "test_deployment" /\ pc = "known"
    /\ \E resp \in ProbeResponses :
        LET o == test_deployment(service_key, resp)
            id == known_deployments[i]
        IN /\ calls' = Append(calls, Call("test_deployment", api_pre(service_key)))
           /\ sent' = sent \o Requests("test_deployment", o, Some(id))
           /\ response' = LastResponse(o)
           /\ result' = Some(o.value)
           /\ IF report_raises(o.value)
              THEN /\ pc' = "crashed" /\ error' = "AttributeError"
                   /\ UNCHANGED <<reports, printed, i>>
              ELSE /\ reports' = Append(reports, [id |-> id, status |-> status_line(o.value)])
                   /\ printed' = Some(report_known(o.value))
                   /\ error' = error
                   /\ IF i < Len(known_deployments)
                      THEN pc' = pc /\ i' = i + 1
                      ELSE pc' = "potential" /\ i' = 1
    /\ UNCHANGED <<script, resource_group, nsubs, sub, service_key, token>>
    /\ UNCHANGED <<deployments, details, model_name, claude_deployments, other_deployments>>
    /\ UNCHANGED <<find_vars, configs_vars>>

\* main, lines 137-146: the next potential deployment is probed and reported.
TD_potential ==
    /\ UNCHANGED integration_vars
    /\ script = "test_deployment" /\ pc = "potential"
    /\ \E resp \in ProbeResponses :
        LET o == test_deployment(service_key, resp)
            id == potential_opus_deployments[i]
        IN /\ calls' = Append(calls, Call("test_deployment", api_pre(service_key)))
           /\ sent' = sent \o Requests("test_deployment", o, Some(id))
           /\ response' = LastResponse(o)
           /\ result' = Some(o.value)
           /\ reports' = Append(reports, [id |-> id, status |-> status_line(o.value)])
           /\ printed' = Some(report_potential(o.value, service_key, id))
           /\ IF i < Len(potential_opus_deployments)
              THEN pc' = pc /\ i' = i + 1
              ELSE pc' = "done" /\ i' = i
    /\ UNCHANGED <<script, resource_group, nsubs, sub, service_key, token, error>>
    /\ UNCHANGED <<deployments, details, model_name, claude_deployments, other_deployments>>
    /\ UNCHANGED <<find_vars, configs_vars>>

----------------------------------------------------------------------------
\* list_configurations.py

\* Variant of list_configurations that accepts status 200 only.
list_configurations_only_200(key, resp) ==
    IF ~Truthy(key.AI_API_URL)
    THEN Outcome(<<>>, "return", <<>>, "Error listing configurations")
    ELSE IF RequestException(resp) \/ resp.status # 200
    THEN Outcome(<<resp>>, "return", <<>>, "Error listing configurations")
    ELSE IF resp.body[1].resources = None
    THEN Outcome(<<resp>>, "return", <<>>, "")
    ELSE Outcome(<<resp>>, "return", resp.body[1].resources[1], "")

\* list_configurations, lines 36-54: any RequestException (MissingSchema
\* for a missing AI_API_URL included) is printed and [] is returned.
list_configurations(key, resp) ==
    IF ~Truthy(key.AI_API_URL)
    THEN Outcome(<<>>, "return", <<>>, "Error listing configurations")
    ELSE IF RequestException(resp)
    THEN Outcome(<<resp>>, "return", <<>>, "Error listing configurations")
    ELSE IF resp.body[1].resources = None
    THEN Outcome(<<resp>>, "return", <<>>, "")
    ELSE Outcome(<<resp>>, "return", resp.body[1].resources[1], "")

\* main, line 96.
is_claude_config(c) == is_claude(config_name(c))
is_other_config(c) == ~is_claude(config_name(c))

\* main, line 71.
LC_list_configurations ==
    /\ UNCHANGED integration_vars
    /\ script = "list_configurations" /\ pc = "list_configurations"
    /\ \E resp \in ListingResponses(ConfigListings(MaxConfigurations)) :
        LET o == list_configurations(service_key, resp)
        IN /\ calls' = Append(calls, Call("list_configurations", api_pre(service_key)))
           /\ sent' = sent \o Requests("list_configurations", o, None)
           /\ response' = LastResponse(o)
           /\ error' = o.error
           /\ configurations' = o.value
           /\ pc' = "classify"
    /\ UNCHANGED <<script, resource_group, nsubs, sub, service_key, token>>
    /\ UNCHANGED <<opus_configs, opus_deployments, running_deployments, suggested>>
    /\ UNCHANGED <<sweep_vars, probe_vars, configs_vars>>

\* main, lines 77-99.
LC_classify ==
    /\ UNCHANGED integration_vars
    /\ script = "list_configurations" /\ pc = "classify"
    /\ claude_configs' = SelectSeq(configurations, is_claude_config)
    /\ other_configs' = SelectSeq(configurations, is_other_config)
    /\ pc' = "done"
    /\ UNCHANGED <<script, resource_group, nsubs, sub, service_key, token, calls, sent, response, error>>
    /\ UNCHANGED <<sweep_vars, find_vars, probe_vars>>

----------------------------------------------------------------------------
\* test_claude_code_integration.py

\* The flags of the command line.
NoArgs == [http_only |-> FALSE, cli_only |-> FALSE, save_output |-> FALSE]
Args == [http_only : BOOLEAN, cli_only : BOOLEAN, save_output : BOOLEAN]
\* ANTHROPIC_AUTH_TOKEN: unset, set to the empty string, or set to a token.
EnvTokens == {None, Some(""), Some("sk-env")}
\* config.json: no file, or the file's secret_authentication_tokens list
\* (empty when the key is absent).
ConfigFiles == {None, Some(<<>>), Some(<<"sk-cfg-1", "sk-cfg-2">>), Some(<<"">>)}
DEFAULT_TOKEN == "sk-my-secret-key-123"

\* A text as a file or a pipe holds it: the text and whether a line end
\* follows it.  str.strip() drops the line end.
Text(t, eol) == [text |-> t, eol |-> eol]
strip(t) == t.text
\* .last_sync_hash: no file, or the hash written by an earlier run.
MarkerFiles == {None, Some(Text("0ld5ync", TRUE))}
\* git rev-parse HEAD: failed, or the hash of HEAD.
HeadHashes == {None, Some("c0ffee12")}
NoResults == [http |-> None, cli |-> None]

\* get_auth_token, lines 33-49.
get_auth_token(env, cfg) ==
    IF Truthy(env) THEN env[1]
    ELSE IF cfg # None /\ cfg[1] # <<>> THEN cfg[1][1]
    ELSE DEFAULT_TOKEN

\* get_last_sync_hash, lines 52-57.
get_last_sync_hash(m) == IF m = None THEN None ELSE Some(strip(m[1]))
\* save_last_sync_hash, lines 60-62: the file holds the hash and nothing else.
save_last_sync_hash(commit_hash) == Some(Text(commit_hash, FALSE))

\* Content blocks of a /v1/messages answer; a block may lack the text key.
ContentBlocks ==
    { <<>>,
      <<[type |-> "text", text |-> Some("Hello ")],
        [type |-> "tool_use", text |-> Some("ignored")],
        [type |-> "text", text |-> Some("world")]>>,
      <<[type |-> "text", text |-> Some("")]>>,
      <<[type |-> "tool_use", text |-> Some("ignored")]>>,
      <<[type |-> "text", text |-> None]>> }
ProxyBodies ==
    { [json |-> "invalid", content |-> None], [json |-> "object", content |-> None] }
        \cup { [json |-> "object", content |-> Some(b)] : b \in ContentBlocks }
\* The proxy's answers, and the exceptions of requests: ConnectionError,
\* ConnectTimeout (a ConnectionError and a Timeout), ReadTimeout (a Timeout)
\* and any other one.
ProxyResponses ==
    { [kind |-> "http", status |-> 200, body |-> Some(b), text |-> ""] : b \in ProxyBodies }
        \cup { [kind |-> "http", status |-> 201,
                body |-> Some([json |-> "object",
                               content |-> Some(<<[type |-> "text", text |-> Some("world")]>>)]),
                text |-> ""],
               [kind |-> "http", status |-> 500, body |-> None,
                text |-> "Internal Server Error"],
               [kind |-> "ConnectionError", status |-> 0, body |-> None, text |-> ""],
               [kind |-> "ConnectTimeout", status |-> 0, body |-> None, text |-> ""],
               [kind |-> "ReadTimeout", status |-> 0, body |-> None, text |-> ""],
               [kind |-> "TooManyRedirects", status |-> 0, body |-> None,
                text |-> "Exceeded 30 redirects."] }

\* The tuple (success, response_text, error) both tests return.
TestResult(success, response_text, err) ==
    [success |-> success, response_text |-> response_text, error |-> err]

\* test_http_endpoint, lines 156-159: the text of the blocks of type 'text'.
RECURSIVE extract_text(_)
extract_text(blocks) ==
    IF blocks = <<>> THEN ""
    ELSE (IF Head(blocks).type = "text"
          THEN (IF Head(blocks).text = None THEN "" ELSE Head(blocks).text[1])
          ELSE "") \o extract_text(Tail(blocks))

\* test_http_endpoint, lines 120-176.  saved tells whether save_test_output
\* could write its file; its exception is caught by the last handler.
test_http_endpoint(resp, save_output, saved) ==
    IF resp.kind \in {"ConnectionError", "ConnectTimeout"}
    THEN TestResult(FALSE, "", Some("Connection refused - is the proxy running?"))
    ELSE IF resp.kind = "ReadTimeout"
    THEN TestResult(FALSE, "", Some("Request timed out after 120s"))
    ELSE IF resp.kind # "http"
    THEN TestResult(FALSE, "", Some(resp.text))
    ELSE IF resp.status # 200
    THEN TestResult(FALSE, "",
                    Some("HTTP " \o ToString(resp.status) \o ": " \o resp.text))
    ELSE IF resp.body[1].json = "invalid"
    THEN TestResult(FALSE, "", Some("Expecting value: line 1 column 1 (char 0)"))
    ELSE LET content == IF resp.body[1].content = None THEN ""
                        ELSE extract_text(resp.body[1].content[1])
         IN IF content = ""
            THEN TestResult(FALSE, "", Some("Empty response content"))
            ELSE IF save_output /\ ~saved
            THEN TestResult(FALSE, "", Some("[Errno 13] Permission denied"))
            ELSE TestResult(TRUE, content, None)

\* What the claude command line did: not in PATH, ran to an exit status, or
\* ran longer than 180 s.
CliOutcomes ==
    { [kind |-> "not_found", returncode |-> 1, stdout |-> Text("", FALSE),
       stderr |-> Text("", FALSE)],
      [kind |-> "exit", returncode |-> 0, stdout |-> Text("Summary", TRUE),
       stderr |-> Text("", FALSE)],
      [kind |-> "exit", returncode |-> 0, stdout |-> Text("", TRUE),
       stderr |-> Text("", FALSE)],
      [kind |-> "exit", returncode |-> 1, stdout |-> Text("", FALSE),
       stderr |-> Text("API Error", TRUE)],
      [kind |-> "timeout", returncode |-> 1, stdout |-> Text("", FALSE),
       stderr |-> Text("", FALSE)] }

\* test_claude_cli, lines 179-227.
test_claude_cli(out, save_output, saved) ==
    IF out.kind = "not_found"
    THEN TestResult(FALSE, "", Some("Claude CLI not found in PATH"))
    ELSE IF out.kind = "timeout"
    THEN TestResult(FALSE, "", Some("Claude CLI timed out after 180s"))
    ELSE IF out.returncode = 0 /\ strip(out.stdout) # ""
    THEN (IF save_output /\ ~saved
          THEN TestResult(FALSE, "", Some("[Errno 13] Permission denied"))
          ELSE TestResult(TRUE, strip(out.stdout), None))
    ELSE IF out.stderr = Text("", FALSE)
    THEN TestResult(FALSE, "", Some("No output received"))
    ELSE TestResult(FALSE, "", Some(strip(out.stderr)))

\* run_integration_test, lines 309-312: the entry of results for one test.
result_entry(r) == Some([success |-> r.success, error |-> r.error])

\* Variant of the summary that ignores the tests' results.
compute_all_passed_always(r) == TRUE

\* run_integration_test, lines 330-335.
compute_all_passed(r) ==
    /\ (r.http # None => r.http[1].success)
    /\ (r.cli # None => r.cli[1].success)

\* The variables of the other scripts.
resolution_vars ==
    <<nsubs, sub, service_key, resource_group, token, calls, sent, response, error,
      sweep_vars, find_vars, probe_vars, configs_vars>>

\* main, lines 352-372: the flags are parsed; the environment and config.json
\* are as the run finds them.
IT_main ==
    /\ script = "test_claude_code_integration" /\ pc = "start"
    /\ args' \in Args
    /\ environ' \in EnvTokens
    /\ config_file' \in ConfigFiles
    /\ pc' = "sync_status"
    /\ UNCHANGED <<script, marker, last_sync, current_hash, api_key, http_response,
                   http_result, results, all_passed, exit_code>>
    /\ UNCHANGED resolution_vars

\* run_integration_test, lines 289-302: the marker and HEAD are read.
IT_sync_status ==
    /\ script = "test_claude_code_integration" /\ pc = "sync_status"
    /\ last_sync' = get_last_sync_hash(marker)
    /\ current_hash' \in HeadHashes
    /\ pc' = "http"
    /\ UNCHANGED <<script, args, environ, config_file, marker, api_key, http_response,
                   http_result, results, all_passed, exit_code>>
    /\ UNCHANGED resolution_vars

\* run_integration_test, lines 307-314: the HTTP test, unless --cli-only.
IT_http ==
    /\ script = "test_claude_code_integration" /\ pc = "http"
    /\ IF args.cli_only
       THEN UNCHANGED <<api_key, http_response, http_result, results>>
       ELSE \E resp \in ProxyResponses, saved \in BOOLEAN :
               LET r == test_http_endpoint(resp, args.save_output, saved)
               IN /\ api_key' = Some(get_auth_token(environ, config_file))
                  /\ http_response' = Some(resp)
                  /\ http_result' = Some(r)
                  /\ results' = [results EXCEPT !.http = result_entry(r)]
    /\ pc' = "cli"
    /\ UNCHANGED <<script, args, environ, config_file, marker, last_sync, current_hash,
                   all_passed, exit_code>>
    /\ UNCHANGED resolution_vars

\* run_integration_test, lines 316-323: the CLI test, unless --http-only.
\* The locals of the HTTP test are dead by now.
IT_cli ==
    /\ script = "test_claude_code_integration" /\ pc = "cli"
    /\ IF args.http_only
       THEN UNCHANGED <<api_key, results>>
       ELSE \E out \in CliOutcomes, saved \in BOOLEAN :
               LET r == test_claude_cli(out, args.save_output, saved)
               IN /\ api_key' = IF out.kind = "not_found" THEN api_key
                                ELSE Some(get_auth_token(environ, config_file))
                  /\ results' = [results EXCEPT !.cli = result_entry(r)]
    /\ http_response' = None /\ http_result' = None
    /\ pc' = "summary"
    /\ UNCHANGED <<script, args, environ, config_file, marker, last_sync, current_hash,
                   all_passed, exit_code>>
    /\ UNCHANGED resolution_vars

\* run_integration_test, lines 330-349, and main, lines 374-380: the summary,
\* the marker and the exit status.
IT_summary ==
    /\ script = "test_claude_code_integration" /\ pc = "summary"
    /\ all_passed' = Some(compute_all_passed(results))
    /\ marker' = IF compute_all_passed(results) /\ Truthy(current_hash)
                 THEN save_last_sync_hash(current_hash[1])
                 ELSE marker
    /\ exit_code' = Some(IF compute_all_passed(results) THEN 0 ELSE 1)
    /\ pc' = "done"
    /\ UNCHANGED <<script, args, environ, config_file, last_sync, current_hash, api_key,
                   http_response, http_result, results>>
    /\ UNCHANGED resolution_vars

----------------------------------------------------------------------------
Scripts ==
    {"list_deployments", "find_opus_deployment", "test_deployment", "list_configurations",
     "test_claude_code_integration"}

Init ==
    /\ script \in Scripts
    /\ pc = "start"
    /\ nsubs \in (IF script = "list_deployments" THEN 0..MaxSubaccounts ELSE {1})
    /\ sub = 0
    /\ service_key = FullKey
    /\ resource_group = ""
    /\ token = None
    /\ calls = <<>>
    /\ sent = <<>>
    /\ response = None
    /\ error = ""
    /\ deployments = <<>>
    /\ i = 1
    /\ details = None
    /\ model_name = None
    /\ claude_deployments = <<>>
    /\ other_deployments = <<>>
    /\ configurations = <<>>
    /\ opus_configs = <<>>
    /\ opus_deployments = <<>>
    /\ running_deployments = <<>>
    /\ suggested = <<>>
    /\ result = None
    /\ reports = <<>>
    /\ printed = None
    /\ claude_configs = <<>>
    /\ other_configs = <<>>
    /\ args = NoArgs
    /\ environ = None
    /\ config_file = None
    /\ marker \in (IF script = "test_claude_code_integration" THEN MarkerFiles ELSE {None})
    /\ last_sync = None
    /\ current_hash = None
    /\ api_key = None
    /\ http_response = None
    /\ http_result = None
    /\ results = NoResults
    /\ all_passed = None
    /\ exit_code = None

Next ==
    \/ LD_main
    \/ LD_load_service_key
    \/ LD_get_token
    \/ LD_list_deployments
    \/ LD_skip
    \/ LD_sweep
    \/ LD_next_subaccount
    \/ run_load_service_key
    \/ run_get_token
    \/ FO_list_configurations
    \/ FO_list_deployments
    \/ FO_match
    \/ FO_report
    \/ TD_known
    \/ TD_potential
    \/ LC_list_configurations
    \/ LC_classify
    \/ IT_main
    \/ IT_sync_status
    \/ IT_http
    \/ IT_cli
    \/ IT_summary

Spec == Init /\ [][Next]_vars

----------------------------------------------------------------------------
\* Properties

\* Case-insensitive comparison stated on its own: both sides folded to upper
\* case.
UpperOf ==
    [c \in { LowerChars[k] : k \in 1..Len(LowerChars) } |->
        UpperChars[CHOOSE k \in 1..Len(LowerChars) : LowerChars[k] = c]]
upper_char(c) == IF c \in DOMAIN UpperOf THEN UpperOf[c] ELSE c
occurs_ignoring_case(tok, name) ==
    \E k \in 0..(Len(name) - Len(tok)) :
        \A j \in 1..Len(tok) : upper_char(name[k + j]) = upper_char(tok[j])
\* The name predicate of find_opus_deployment.py: either target token occurs.
NameSatisfies(c) ==
    /\ c.name # None
    /\ \/ occurs_ignoring_case(TOK_CLAUDE_45_OPUS, c.name[1])
       \/ occurs_ignoring_case(TOK_CLAUDE45_OPUS, c.name[1])

Correlated == script = "find_opus_deployment" /\ pc \in {"report", "done"}
MatchKey(m) == <<m.config_id, m.deployment_id, m.status>>
\* The scenario of the claim: c1 'claude-4.5-opus-v1', c2 'gpt-4o', and the
\* RUNNING deployments d1 -> c1 and d2 -> c2.
Scenario ==
    /\ configurations = <<[id |-> "c1", name |-> Some(NAME_OPUS_V1)],
                          [id |-> "c2", name |-> Some(NAME_GPT)]>>
    /\ deployments = <<[id |-> "d1", configurationId |-> "c1", status |-> "RUNNING"],
                       [id |-> "d2", configurationId |-> "c2", status |-> "RUNNING"]>>

\* C1: after the correlation step, a deployment D of the listing has a match
\* if and only if some configuration C of the listing has C.id =
\* D.configurationId and a name satisfying the predicate, case ignored; every
\* match carries the ids, status and name of such a pair; an empty deployment
\* listing gives no match; the scenario gives exactly (c1, d1, RUNNING).
C1_Correlation ==
    Correlated =>
        LET satisfying == { j \in 1..Len(configurations) : NameSatisfies(configurations[j]) }
        IN
        /\ \A k \in 1..Len(deployments) :
              (\E m \in 1..Len(opus_deployments) :
                    opus_deployments[m].deployment_id = deployments[k].id)
              <=> (\E j \in satisfying :
                    configurations[j].id = deployments[k].configurationId)
        /\ \A m \in 1..Len(opus_deployments) :
              \E k \in 1..Len(deployments), j \in satisfying :
                  /\ opus_deployments[m].deployment_id = deployments[k].id
                  /\ opus_deployments[m].status = deployments[k].status
                  /\ opus_deployments[m].config_id = configurations[j].id
                  /\ opus_deployments[m].config_name = configurations[j].name
                  /\ configurations[j].id = deployments[k].configurationId
        /\ (deployments = <<>> => opus_deployments = <<>>)
        /\ (Scenario =>
              /\ Len(opus_deployments) = 1
              /\ MatchKey(opus_deployments[1]) = <<"c1", "d1", "RUNNING">>)
\* The scenario has been correlated, with a mixed-case name matched elsewhere.
C1_Witness ==
    /\ Correlated /\ Scenario
    /\ Len(opus_deployments) = 1

\* Every field of the credential descriptor is present and not empty.
CredentialComplete(key) ==
    /\ Truthy(key.clientid) /\ Truthy(key.clientsecret)
    /\ Truthy(key.url) /\ Truthy(key.AI_API_URL)

\* C2: no HTTP request is issued on behalf of a service key with a missing
\* or empty credential field.
C2_NoRequestWithoutCredentials ==
    sent # <<>> => CredentialComplete(service_key)

CredentialErrors ==
    {"Missing required fields in service key", "AI_API_URL not found in service key"}
\* C3: in list_deployments.py a credential error never ends the run while
\* subaccounts of the mapping remain to be processed.
C3_CredentialErrorSkipsSubaccount ==
    ~(/\ script = "list_deployments" /\ pc = "exit"
      /\ error \in CredentialErrors
      /\ sub < nsubs)

LastOp == IF sent = <<>> THEN "" ELSE sent[Len(sent)].op
ExchangeFailed == response # None /\ RequestException(response[1])
\* C4: the value an operation returns after a failed HTTP exchange differs
\* from every value it returns after a successful exchange (stated for runs
\* whose service key is complete).
C4_FailureDistinguishable ==
    CredentialComplete(service_key) =>
    /\ (/\ script = "list_deployments" /\ LastOp = "get_deployment_details"
        /\ details # None /\ ExchangeFailed)
       => \A r \in DetailResponses :
             ~RequestException(r) => get_deployment_details(r).value # details[1]
    /\ (/\ script = "list_configurations" /\ LastOp = "list_configurations"
        /\ pc = "classify" /\ ExchangeFailed)
       => \A r \in ListingResponses(ConfigListings(MaxConfigurations)) :
             ~RequestException(r)
                => list_configurations(service_key, r).value # configurations

SweepIds == known_deployments \o potential_opus_deployments
\* C5: once the sweep of test_deployment.py has begun, the run does not end
\* before every deployment id of the lists has been probed and reported
\* (stated for runs whose service key is complete).
C5_SweepNeverAborted ==
    (/\ script = "test_deployment" /\ token # None
     /\ CredentialComplete(service_key)
     /\ pc \in {"done", "crashed", "exit"})
        => /\ Len(reports) = Len(SweepIds)
           /\ \A k \in 1..Len(SweepIds) : reports[k].id = SweepIds[k]

Probed ==
    /\ script = "test_deployment" /\ result # None
    /\ LastOp = "test_deployment" /\ response # None
TimeoutResponse ==
    [kind |-> "timeout", status |-> 0, header |-> None, body |-> None, text |-> ""]
\* C6: a probe that timed out yields the failure 'Request timeout' without a
\* status code; a probe answered 500 yields a failure carrying status code
\* 500; the two results differ, whatever the body text of the 500.
C6_TimeoutDistinguished ==
    Probed =>
        /\ response[1].kind = "timeout" =>
              /\ ~result[1].success
              /\ result[1].status_code = None
              /\ result[1].error = Some("Request timeout")
        /\ (response[1].kind = "http" /\ response[1].status = 500) =>
              /\ ~result[1].success
              /\ result[1].status_code = Some(500)
              /\ result[1] # test_deployment(service_key, TimeoutResponse).value
\* A 500 whose body text reads like the timeout message has been probed.
C6_Witness ==
    /\ Probed
    /\ response[1].status = 500 /\ response[1].text = "Request timeout"
    /\ result[1].status_code = Some(500)

NonEmpty(o) == o # None /\ o[1] # EMPTY
\* The fallback chain of the claim: header, then nested field, then
\* configuration name, the first non-empty one, else 'unknown'.
FirstNonEmpty(header, nested, cfg) ==
    IF NonEmpty(header) THEN header[1]
    ELSE IF NonEmpty(nested) THEN nested[1]
    ELSE IF NonEmpty(cfg) THEN cfg[1]
    ELSE UNKNOWN
\* C7: the model name list_deployments.py derives for a deployment is the
\* first non-empty value of header, nested backend field and configuration
\* name of the detail response, and 'unknown' when all are absent or empty.
C7_FallbackOrder ==
    (/\ script = "list_deployments" /\ pc \in {"sweep", "done"}
     /\ LastOp = "get_deployment_details"
     /\ model_name # None /\ details # None /\ response # None)
        => model_name[1] =
              FirstNonEmpty(response[1].header,
                            IF details[1].has_backend_model THEN details[1].name ELSE None,
                            details[1].configurationName)

\* C8: in list_deployments.py, after a response with status 401 the next
\* request issued is a token request (stated for runs whose service key is
\* complete).
C8_ReacquireOn401 ==
    [][(/\ script = "list_deployments"
        /\ response # None /\ response[1].status = 401
        /\ CredentialComplete(service_key)
        /\ Len(sent') > Len(sent))
          => sent'[Len(sent')].op = "get_token"]_vars

RequestsOf(c) == { k \in 1..Len(sent) : sent[k].call = c }
\* C9: every invocation of a core operation has sent at most one request,
\* and exactly one when the credential fields it uses were present.
C9_NoRetry ==
    /\ \A c \in 1..Len(calls) :
          /\ Cardinality(RequestsOf(c)) <= 1
          /\ calls[c].pre => Cardinality(RequestsOf(c)) = 1
    /\ \A k \in 1..Len(sent) : sent[k].call \in 1..Len(calls)
\* A failed exchange was followed by further operations, one request each.
C9_Witness ==
    /\ script = "list_deployments" /\ pc = "sweep"
    /\ ExchangeFailed
    /\ Len(calls) >= 4 /\ Len(sent) = Len(calls)

IdsOf(op) ==
    LET picked == SelectSeq(sent, LAMBDA r : r.op = op)
    IN [k \in 1..Len(picked) |-> picked[k].id[1]]
RunningIds(deps) ==
    LET picked == SelectSeq(deps, LAMBDA d : d.status = "RUNNING")
    IN [k \in 1..Len(picked) |-> picked[k].id]
Listed(op) == \E k \in 1..Len(sent) : sent[k].op = op
\* C10: the first request of a run is the token request and every other
\* request carries the token it returned; a per-deployment request follows
\* the listing request; matches and classifications exist only once their
\* listings have been fetched; detail fetches and probes are issued in
\* listing order, one per deployment reached so far.
C10_Sequential ==
    /\ \A k \in 1..Len(sent) :
          /\ (sent[k].op = "get_token") <=> (k = 1)
          /\ k > 1 => sent[k].token # None
          /\ sent[k].op = "get_deployment_details" =>
                \E j \in 1..(k - 1) : sent[j].op = "list_deployments"
    /\ (script = "list_deployments" /\ pc \in {"sweep", "done"}) =>
          IdsOf("get_deployment_details") = RunningIds(SubSeq(deployments, 1, i - 1))
    /\ (claude_deployments # <<>> \/ other_deployments # <<>>) =>
          Listed("list_deployments")
    /\ (opus_configs # <<>> \/ claude_configs # <<>> \/ other_configs # <<>>) =>
          Listed("list_configurations")
    /\ opus_deployments # <<>> =>
          /\ Listed("list_configurations") /\ Listed("list_deployments")
          /\ \E j, k \in 1..Len(sent) :
                /\ j < k
                /\ sent[j].op = "list_configurations"
                /\ sent[k].op = "list_deployments"
    /\ (script = "test_deployment" /\ api_pre(service_key)) =>
          IdsOf("test_deployment") = SubSeq(SweepIds, 1, Len(IdsOf("test_deployment")))
\* Two detail fetches have followed the token and the listing, in order.
C10_Witness ==
    /\ script = "list_deployments" /\ pc = "sweep"
    /\ Len(sent) = 4
    /\ IdsOf("get_deployment_details") = <<"d1", "d2">>

\* C11: every request other than the token request carries the token that
\* the token endpoint issued in this iteration for this subaccount, and this
\* subaccount's resource group; the iteration's first request is its own
\* token request, made for the same subaccount.
C11_TokenPerOperation ==
    \A k \in 1..Len(sent) :
        /\ sent[1].op = "get_token" /\ sent[1].sub = sent[k].sub
        /\ sent[k].op # "get_token" =>
              /\ sent[k].token = Some(sent[k].sub)
              /\ sent[k].resource_group =
                    Some(config_resource_group(SubaccountConfig(sent[k].sub)))
\* The second subaccount's detail fetch went out with the second token and
\* the default resource group.
C11_Witness ==
    /\ script = "list_deployments" /\ sub = 2
    /\ \E k \in 1..Len(sent) :
          /\ sent[k].op = "get_deployment_details"
          /\ sent[k].token = Some(2)
          /\ sent[k].resource_group = Some("default")

\* The positions of the listing whose deployment is RUNNING and belongs to a
\* listed configuration with a matching name.
RunningMatches ==
    LET satisfying == { j \in 1..Len(configurations) : NameSatisfies(configurations[j]) }
    IN { k \in 1..Len(deployments) :
           /\ deployments[k].status = "RUNNING"
           /\ \E j \in satisfying :
                 configurations[j].id = deployments[k].configurationId }
\* C12: the deployment suggested for the routing configuration is the first
\* RUNNING match of the deployment listing, whatever non-RUNNING matches
\* precede it; nothing is suggested when no match is RUNNING.
C12_FirstRunningMatch ==
    (script = "find_opus_deployment" /\ pc = "done") =>
        IF RunningMatches = {}
        THEN suggested = <<>>
        ELSE LET first == CHOOSE k \in RunningMatches : \A m \in RunningMatches : k <= m
             IN /\ Len(suggested) = 1
                /\ suggested[1].deployment_id = deployments[first].id
                /\ suggested[1].status = "RUNNING"
                /\ suggested[1].deployment_url =
                      deployment_url(service_key, deployments[first].id)
\* Two RUNNING matches were found and the first of the listing was suggested.
C12_Witness ==
    /\ script = "find_opus_deployment" /\ pc = "done"
    /\ Cardinality(RunningMatches) = 2
    /\ suggested # <<>> /\ suggested[1].deployment_id = "d1"

\* The deployment refers to a configuration that is not in the listing.
Orphan(d) == \A j \in 1..Len(configurations) : configurations[j].id # d.configurationId
Listed_only(d) == ~Orphan(d)
\* C13: the correlation step completes without an error whatever the
\* listings; a deployment whose configurationId is in no listed
\* configuration has no match; and the matches are those the listing gives
\* with such deployments left out.
C13_OrphanExcluded ==
    Correlated =>
        /\ error = ""
        /\ \A k \in 1..Len(deployments) :
              Orphan(deployments[k]) =>
                 \A m \in 1..Len(opus_deployments) :
                     opus_deployments[m].deployment_id # deployments[k].id
        /\ opus_deployments =
              match_deployments(SelectSeq(deployments, Listed_only), opus_configs,
                                service_key)
\* A deployment of a deleted configuration was listed before a matching one.
C13_Witness ==
    /\ Correlated
    /\ Len(deployments) = 2
    /\ deployments[1].configurationId = "c0" /\ Orphan(deployments[1])
    /\ Len(opus_deployments) = 1 /\ opus_deployments[1].deployment_id = "d2"

\* C14: a probe answered with a 2xx status and a JSON object as body
\* reports success with that status code, the x-model-id header value or
\* 'unknown' as model hint, and the response body; for status 200 and the
\* body whose only content block is the text "test", the text reported is
\* "test".
C14_Probe2xxSuccess ==
    (/\ Probed /\ CredentialComplete(service_key)
     /\ response[1].kind = "http"
     /\ response[1].status >= 200 /\ response[1].status < 300
     /\ response[1].body # None /\ response[1].body[1].json = "object")
        => /\ result[1].success
           /\ result[1].status_code = Some(response[1].status)
           /\ result[1].model_header = Some(header_or_unknown(response[1].header))
           /\ result[1].response = response[1].body
           /\ (/\ response[1].status = 200
               /\ response[1].body[1].content =
                     Some(<<[type |-> "text", text |-> Some("test")]>>)
               /\ pc = "known" /\ printed # None)
                  => printed[1].text = Some("test")

\* The resources array of a JSON body, empty when the field is absent.
ResourcesOf(resp) ==
    IF resp.body[1].resources = None THEN <<>> ELSE resp.body[1].resources[1]
Answered2xx ==
    /\ response # None /\ response[1].kind = "http"
    /\ response[1].status >= 200 /\ response[1].status < 300
\* C15: the value a listing operation returned for a 2xx response is the
\* resources array of the body, element by element in the order received,
\* and the empty sequence when the body has no resources field.
C15_ListingReturnsResources ==
    Answered2xx =>
        /\ (/\ LastOp = "list_deployments"
            /\ pc \in {"sweep", "match", "report", "done"})
               => deployments = ResourcesOf(response[1])
        /\ (/\ LastOp = "list_configurations"
            /\ pc \in {"list_deployments", "classify", "done"})
               => configurations = ResourcesOf(response[1])
\* A listing of two configurations was returned as received.
C15_Witness ==
    /\ script = "list_configurations" /\ pc = "classify"
    /\ LastOp = "list_configurations" /\ Answered2xx
    /\ Len(configurations) = 2
    /\ configurations[1].id = "c1" /\ configurations[2].id = "c2"
    /\ configurations = response[1].body[1].resources[1]

EXAMPLE_BASE == "https://api.example.com"
EXAMPLE_URL == "https://api.example.com/v2/inference/deployments/d0c56b8d3578bd1b"
\* C16: with an API base URL in the service key, every derived deployment
\* URL (in the reports of list_deployments.py, in the matches of
\* find_opus_deployment.py, in the probe requests of test_deployment.py and
\* in its report) is the base, "/v2/inference/deployments/" and the
\* deployment id joined unchanged; the URL of a match is the URL a probe of
\* that id is posted to; for the base https://api.example.com and the id
\* d0c56b8d3578bd1b it is EXAMPLE_URL.
C16_DerivedUrlExact ==
    Truthy(service_key.AI_API_URL) =>
        LET base == service_key.AI_API_URL[1]
            Expected(id) == base \o "/v2/inference/deployments/" \o id
        IN /\ \A k \in 1..Len(claude_deployments) :
                 claude_deployments[k].url = Expected(claude_deployments[k].id)
           /\ \A k \in 1..Len(other_deployments) :
                 other_deployments[k].url = Expected(other_deployments[k].id)
           /\ \A m \in 1..Len(opus_deployments) :
                 /\ opus_deployments[m].deployment_url =
                       Expected(opus_deployments[m].deployment_id)
                 /\ opus_deployments[m].deployment_url =
                       test_deployment_url(service_key, opus_deployments[m].deployment_id)
           /\ \A k \in 1..Len(sent) :
                 sent[k].op = "test_deployment" =>
                    /\ sent[k].url = Expected(sent[k].id[1])
                    /\ (base = EXAMPLE_BASE /\ sent[k].id = Some("d0c56b8d3578bd1b"))
                          => sent[k].url = EXAMPLE_URL
           /\ (printed # None /\ printed[1].url # None) =>
                 printed[1].url[1] = sent[Len(sent)].url
\* A match was reported for a base URL that ends with a slash, which is kept.
C16_Witness ==
    /\ script = "find_opus_deployment" /\ pc = "done"
    /\ service_key.AI_API_URL = Some("https://api.example.com/")
    /\ opus_deployments # <<>>
    /\ opus_deployments[1].deployment_url =
          "https://api.example.com//v2/inference/deployments/d1"

\* C19: in the sweep of list_deployments.py, among the deployments the sweep
\* has passed, exactly those listed as RUNNING have had a detail request,
\* one each and in listing order; a deployment in any other status has had
\* none and is in neither report.
C19_DetailsOnlyForRunning ==
    (script = "list_deployments" /\ pc \in {"sweep", "done"}) =>
        /\ \A j \in 1..(i - 1) :
              (deployments[j].status = "RUNNING")
                 <=> (\E k \in 1..Len(sent) :
                        /\ sent[k].op = "get_deployment_details"
                        /\ sent[k].id = Some(deployments[j].id))
        /\ \A k \in 1..Len(sent) :
              sent[k].op = "get_deployment_details" =>
                 /\ \E j \in 1..(i - 1) : sent[k].id = Some(deployments[j].id)
                 /\ \A m \in 1..Len(sent) :
                       (sent[m].op = sent[k].op /\ sent[m].id = sent[k].id) => m = k
        /\ \A j \in 1..Len(deployments) :
              deployments[j].status # "RUNNING" =>
                 /\ \A k \in 1..Len(claude_deployments) :
                       claude_deployments[k].id # deployments[j].id
                 /\ \A k \in 1..Len(other_deployments) :
                       other_deployments[k].id # deployments[j].id
\* A PENDING deployment was passed without a request and the RUNNING one
\* after it was fetched and reported.
C19_Witness ==
    /\ script = "list_deployments" /\ pc = "done"
    /\ Len(deployments) = 2
    /\ deployments[1].status = "PENDING" /\ deployments[2].status = "RUNNING"
    /\ IdsOf("get_deployment_details") = <<"d2">>
    /\ Len(claude_deployments) = 1 /\ claude_deployments[1].id = "d2"

\* C17: whenever the content of .last_sync_hash changes, the step is the end
\* of an integration-test run in which every executed test succeeded and
\* the HEAD hash is known, and the new content is that hash; so in every
\* other run the marker keeps the value it had at the start.
C17_MarkerOnlyOnSuccess ==
    [][marker' # marker =>
          /\ script = "test_claude_code_integration"
          /\ pc = "summary" /\ pc' = "done"
          /\ (results.http # None => results.http[1].success)
          /\ (results.cli # None => results.cli[1].success)
          /\ current_hash # None /\ current_hash[1] # ""
          /\ marker' = Some(Text(current_hash[1], FALSE))]_vars
\* Both tests passed and the marker went from the old hash to HEAD.
C17_Witness ==
    /\ script = "test_claude_code_integration" /\ pc = "done"
    /\ results.http # None /\ results.http[1].success
    /\ results.cli # None /\ results.cli[1].success
    /\ last_sync = Some("0ld5ync")
    /\ marker = Some(Text("c0ffee12", FALSE))

REFUSED == "Connection refused - is the proxy running?"
TIMED_OUT == "Request timed out after 120s"
\* The text of the answer: the texts of its blocks of type 'text', joined in
\* order; empty unless the answer has status 200 and a JSON object as body.
AnswerText(resp) ==
    IF /\ resp.kind = "http" /\ resp.status = 200
       /\ resp.body[1].json = "object" /\ resp.body[1].content # None
    THEN extract_text(resp.body[1].content[1])
    ELSE ""
\* C18: test_http_endpoint returns success exactly when the proxy answered
\* 200 with a non-empty text, and then returns that text; otherwise it
\* returns an empty text and a non-empty error; a refused connection gives
\* the connection error, a timeout the timeout error, and a status other
\* than 200 an error that is neither.
C18_HttpEndpointResult ==
    (script = "test_claude_code_integration" /\ http_response # None /\ http_result # None)
        => LET resp == http_response[1]
               r == http_result[1]
           IN /\ r.success <=> (/\ resp.kind = "http" /\ resp.status = 200
                                /\ AnswerText(resp) # "")
              /\ r.success => r.response_text = AnswerText(resp)
              /\ ~r.success =>
                    /\ r.response_text = ""
                    /\ r.error # None /\ r.error[1] # ""
              /\ resp.kind = "ConnectionError" => r.error = Some(REFUSED)
              /\ resp.kind \in {"ConnectTimeout", "ReadTimeout"} => r.error = Some(TIMED_OUT)
              /\ (resp.kind = "http" /\ resp.status # 200) =>
                    r.error \notin {Some(REFUSED), Some(TIMED_OUT)}

\* C20: the token sent to the proxy is the environment's token when that is
\* set and not empty, otherwise the first entry of the configuration file's
\* token list when the file exists and the list is not empty, otherwise the
\* built-in default; it is never empty.
C20_AuthTokenPriority ==
    (script = "test_claude_code_integration" /\ api_key # None) =>
        /\ api_key[1] =
              (IF environ # None /\ environ[1] # "" THEN environ[1]
               ELSE IF config_file # None /\ Len(config_file[1]) > 0
               THEN config_file[1][1]
               ELSE "sk-my-secret-key-123")
        /\ api_key[1] # ""

\* C21: an integration-test run ends as passed (all_passed true, exit status
\* 0) only if at least one of the two tests was executed and every executed
\* test succeeded, whatever the flags.
C21_PassedNeedsExecutedTest ==
    (/\ script = "test_claude_code_integration" /\ pc = "done"
     /\ (all_passed = Some(TRUE) \/ exit_code = Some(0)))
        => /\ results.http # None \/ results.cli # None
           /\ results.http # None => results.http[1].success
           /\ results.cli # None => results.cli[1].success

\* No two configurations of the listing have the same id.
UniqueConfigurationIds ==
    \A j, k \in 1..Len(configurations) :
        configurations[j].id = configurations[k].id => j = k
\* The position of a deployment id in the listing (ids are unique there).
PositionOf(id) == CHOOSE k \in 1..Len(deployments) : deployments[k].id = id
\* C22: when the configuration ids of the listing are unique, the matches
\* follow the deployment listing order strictly, so no deployment has two
\* matches and there are at most as many matches as deployments; and the
\* first RUNNING match is that of the first RUNNING matching deployment.
C22_OneMatchPerDeployment ==
    (Correlated /\ UniqueConfigurationIds) =>
        /\ \A m, n \in 1..Len(opus_deployments) :
              m < n => PositionOf(opus_deployments[m].deployment_id)
                         < PositionOf(opus_deployments[n].deployment_id)
        /\ Len(opus_deployments) <= Len(deployments)
        /\ (pc = "done" /\ RunningMatches # {}) =>
              /\ running_deployments # <<>>
              /\ \A k \in RunningMatches :
                    PositionOf(running_deployments[1].deployment_id) <= k
              /\ PositionOf(running_deployments[1].deployment_id) \in RunningMatches
\* Two deployments of two different matching configurations were matched,
\* the STOPPED one first and the RUNNING one after it.
C22_Witness ==
    /\ script = "find_opus_deployment" /\ pc = "done"
    /\ UniqueConfigurationIds
    /\ Len(opus_deployments) = 2
    /\ opus_deployments[1].deployment_id = "d1" /\ opus_deployments[1].status = "STOPPED"
    /\ opus_deployments[2].deployment_id = "d2"
    /\ opus_deployments[1].config_id # opus_deployments[2].config_id
    /\ running_deployments[1].deployment_id = "d2"

====
